---------------------------- MODULE Spec2Model ----------------------------
(***************************************************************************)
(* The notebook examples/sup_variant_prediction.ipynb as a state machine.  *)
(*                                                                         *)
(* The kernel runs the code cells top to bottom ("Run All"): each cell is  *)
(* compiled on its own and then executed, and the first uncaught exception *)
(* ends the run.  The state is the kernel's namespace (the notebook's      *)
(* global variables), the text printed so far and the position in the      *)
(* notebook.  The inputs are the FASTA file and the directory of           *)
(* embedding files.                                                        *)
(*                                                                         *)
(* A tensor is represented by the name of the file it was read from and    *)
(* its length; a printed item by a tuple.                                  *)
(***************************************************************************)
EXTENDS Integers, Sequences, FiniteSets, TLC

\* ------------------------------------------------------------------------
\* Bounds of the model
\* ------------------------------------------------------------------------

\* Largest number of records in the FASTA file.
MaxRecords == 76

\* Records 1..MaxFaultPos may be malformed in any combination; the records
\* after them are well formed.
MaxFaultPos == 2

\* ------------------------------------------------------------------------
\* Program constants
\* ------------------------------------------------------------------------

EMB_LAYER == 34

\* "n_features (1280 in our case)": the length of a layer-34 embedding.
EmbDim == 1280

\* train_size = 0.8, as the fraction train_size_num / train_size_den.
train_size_num == 8

train_size_den == 10

random_state == 42

num_pca_components == 60

\* ------------------------------------------------------------------------
\* Pure helpers
\* ------------------------------------------------------------------------

Min(a, b) == IF a <= b THEN a ELSE b

Range(s) == {s[j] : j \in 1..Len(s)}

\* str.split('|')[-1]: the tokens after the last separator (the whole
\* string when it holds no separator).
LastField(header) ==
    LET seps == {j \in 1..Len(header) : header[j] = "|"}
        last == IF seps = {} THEN 0
                ELSE CHOOSE j \in seps : \A k \in seps : k <= j
    IN SubSeq(header, last + 1, Len(header))

\* The numeric literals that occur in headers, with their values in
\* hundredths.
FloatValue == ("0.5" :> 50) @@ ("1.0" :> 100) @@ ("-0.25" :> -25)

\* float(s) succeeds exactly on a numeric literal.
IsFloat(field) == Len(field) = 1 /\ field[1] \in DOMAIN FloatValue

Float(field) == FloatValue[field[1]]

\* header[1:], the embedding's file name without directory and suffix.
FileName(header) == Tail(header)

\* ------------------------------------------------------------------------
\* Inputs
\* ------------------------------------------------------------------------

\* How a record of the input can be malformed.
Kinds == {"ok", "badnum", "nosep", "nofile", "nolayer", "dim"}

EffectToken(k) ==
    CASE k % 3 = 0 -> "0.5"
      [] k % 3 = 1 -> "1.0"
      [] OTHER     -> "-0.25"

\* ">{index}|{mutation_id}|{effect}", one token per character class.
MakeHeader(k, kind) ==
    CASE kind = "badnum" -> <<">", ToString(k), "|", "M", "|", "n/a">>
      [] kind = "nosep"  -> <<">", ToString(k)>>
      [] OTHER           -> <<">", ToString(k), "|", "M", "|", EffectToken(k)>>

\* The file extract.py wrote for a record: the layer it holds and the
\* length of the mean representation.
MakeFile(k, kind) ==
    [name  |-> FileName(MakeHeader(k, kind)),
     layer |-> IF kind = "nolayer" THEN EMB_LAYER - 1 ELSE EMB_LAYER,
     dim   |-> IF kind = "dim" THEN EmbDim \div 2 ELSE EmbDim]

KindOf(kinds, k) == IF k \in DOMAIN kinds THEN kinds[k] ELSE "ok"


\* ------------------------------------------------------------------------
\* Hyper-parameter grids (cell "Initialize grids")
\* ------------------------------------------------------------------------

knn_grid ==
    [model               |-> <<"KNeighborsRegressor()">>,
     model__n_neighbors  |-> <<"5", "10">>,
     model__weights      |-> <<"uniform", "distance">>,
     model__algorithm    |-> <<"ball_tree", "kd_tree", "brute">>,
     model__leaf_size    |-> <<"15", "30">>,
     model__p            |-> <<"1", "2">>]

svm_grid ==
    [model               |-> <<"SVR()">>,
     model__C            |-> <<"0.1", "1.0", "10.0">>,
     model__kernel       |-> <<"linear", "poly", "rbf", "sigmoid">>,
     model__degree       |-> <<"3">>,
     model__gamma        |-> <<"scale">>]

rfr_grid ==
    [model                    |-> <<"RandomForestRegressor()">>,
     model__n_estimators      |-> <<"20">>,
     model__criterion         |-> <<"squared_error", "absolute_error">>,
     model__max_features      |-> <<"sqrt", "log2">>,
     model__min_samples_split |-> <<"5", "10">>,
     model__min_samples_leaf  |-> <<"1", "4">>]

\* ------------------------------------------------------------------------
\* The cell "Run Grid Search" as the kernel sees it before running it
\* ------------------------------------------------------------------------

\* The brackets of the cell's source in order, comments and string
\* literals left out.  The first nine are those of
\*   pipe = Pipeline(steps=(('pca', PCA(num_pca_components), ('model', 'passthrough')))
SearchCellBrackets ==
    << "(", "(", "(", "(", ")", "(", ")", ")", ")",  \* pipe = Pipeline(...
       "[", "]",                                      \* result_list = []
       "[", "]",                                      \* grid_list = []
       "(", ")",                                      \* zip(...)
       "(", ")",                                      \* print(cls_name)
       "(", ")",                                      \* GridSearchCV( ... )
       "(", ")",                                      \* grid.fit(...)
       "(", "(", ")", ")",                            \* result_list.append(...)
       "(", ")" >>                                    \* grid_list.append(grid)

Opening == {"(", "[", "{"}

\* The bracket a closing bracket matches.
Partner(b) == CASE b = ")" -> "(" [] b = "]" -> "[" [] OTHER -> "{"

\* The stack of open brackets after reading the first n brackets; <<"!">>
\* once a closing bracket met no partner.
RECURSIVE OpenAfter(_, _)
OpenAfter(bs, n) ==
    IF n = 0 THEN <<>>
    ELSE LET st == OpenAfter(bs, n - 1)
             b  == bs[n]
         IN IF st # <<>> /\ st[Len(st)] = "!" THEN st
            ELSE IF b \in Opening THEN Append(st, b)
            ELSE IF st # <<>> /\ st[Len(st)] = Partner(b)
                 THEN SubSeq(st, 1, Len(st) - 1)
            ELSE <<"!">>

\* A cell compiles only if every bracket is closed at its end.
Compiles(bs) == OpenAfter(bs, Len(bs)) = <<>>

\* ------------------------------------------------------------------------
\* train_test_split
\* ------------------------------------------------------------------------

\* RandomState(seed).permutation(n).  The Mersenne-Twister draw itself is
\* not reproduced: it is a bijection of 1..n fixed by (seed, n), and this
\* is one.
Permutation(seed, n) ==
    LET stride == IF n > 1 THEN n - 1 ELSE 1
    IN [j \in 1..n |-> (((j - 1) * stride + seed) % n) + 1]

\* _validate_shuffle_split with a float train_size and no test_size.
NTrain(n) == (train_size_num * n) \div train_size_den

NTest(n) == n - NTrain(n)

\* A variant of the index computation that takes the train indices from
\* the head of the permutation as well.
SplitIndices_Overlap(seed, n) ==
    LET perm == Permutation(seed, n)
    IN [train |-> [j \in 1..NTrain(n) |-> perm[j]],
        test  |-> [j \in 1..NTest(n) |-> perm[j]]]

\* ShuffleSplit: the test indices are the head of the permutation, the
\* train indices the n_train entries after them.
SplitIndices(seed, n) ==
    LET perm == Permutation(seed, n)
    IN [train |-> [j \in 1..NTrain(n) |-> perm[NTest(n) + j]],
        test  |-> [j \in 1..NTest(n) |-> perm[j]]]

\* Indexing an array (or list) by a sequence of indices gives a new one.
Take(arr, idx) == [j \in 1..Len(idx) |-> arr[idx[j]]]

\* ------------------------------------------------------------------------
\* State
\* ------------------------------------------------------------------------

VARIABLES
    fasta,            \* the records of FASTA_PATH: their headers, in order
    emb_dir,          \* the files of EMB_PATH
    np_random,        \* state of numpy's global random generator
    pc,               \* the cell to run next, or "halted"
    error,            \* the uncaught exception that ended the run, or "none"
    ns,               \* the names bound in the kernel's namespace
    cells,            \* the cells that ran to their end, in order
    out,              \* what has been printed or displayed
    i,                \* records consumed by the loading loop
    ys, Xs,
    Xs_train, Xs_test, ys_train, ys_test,
    pca,              \* <<>> until bound, then <<the fitted PCA object>>
    Xs_train_pca,
    fits,             \* every estimator fit so far and the rows it used
    param_grid_list,
    result_list, grid_list

inputs == <<fasta, emb_dir, np_random>>

control == <<pc, error>>

loaded == <<i, ys, Xs>>

splits == <<Xs_train, Xs_test, ys_train, ys_test>>

projection == <<pca, Xs_train_pca, fits>>

search == <<param_grid_list, result_list, grid_list>>

vars == <<inputs, control, ns, cells, out, loaded, splits, projection, search>>

\* What each cell reads from, and binds in, the namespace.
LoadCell ==
    [cell   |-> "load",
     reads  |-> {"FASTA_PATH", "EMB_PATH", "EMB_LAYER"},
     writes |-> {"ys", "Xs", "header", "_seq", "scaled_effect", "fn", "embs"}]

SplitCell ==
    [cell   |-> "split",
     reads  |-> {"Xs", "ys"},
     writes |-> {"train_size", "Xs_train", "Xs_test", "ys_train", "ys_test"}]

ShapesCell ==
    [cell   |-> "shapes",
     reads  |-> {"Xs_train", "Xs_test", "ys_train", "ys_test"},
     writes |-> {}]

PCACell ==
    [cell   |-> "pca",
     reads  |-> {"Xs_train"},
     writes |-> {"num_pca_components", "pca", "Xs_train_pca"}]

PlotCell ==
    [cell   |-> "plot",
     reads  |-> {"Xs_train_pca", "ys_train"},
     writes |-> {"fig_dims", "fig", "ax", "sc"}]

GridsCell ==
    [cell   |-> "grids",
     reads  |-> {},
     writes |-> {"knn_grid", "svm_grid", "rfr_grid"}]

ListsCell ==
    [cell   |-> "lists",
     reads  |-> {"knn_grid", "svm_grid", "rfr_grid"},
     writes |-> {"cls_list", "param_grid_list"}]

\* An uncaught exception ends the run.
Raise(e) == pc' = "halted" /\ error' = e

\* A cell ran to its end: it is logged, its names are bound, the next runs.
Finish(c, next) ==
    /\ cells' = Append(cells, c)
    /\ ns' = ns \cup c.writes
    /\ pc' = next
    /\ error' = error

\* ------------------------------------------------------------------------
\* Initial state: the configuration cells have run, nothing is loaded
\* ------------------------------------------------------------------------

Init ==
    /\ \E n \in 0..MaxRecords :
         \E kinds \in [1..Min(n, MaxFaultPos) -> Kinds] :
            /\ fasta = [k \in 1..n |-> MakeHeader(k, KindOf(kinds, k))]
            /\ emb_dir = {MakeFile(k, KindOf(kinds, k)) :
                             k \in {j \in 1..n : KindOf(kinds, j) # "nofile"}}
    /\ np_random \in {0, 1}
    /\ pc = "load"
    /\ error = "none"
    /\ ns = {"FASTA_PATH", "EMB_PATH", "EMB_LAYER"}
    /\ cells = <<>>
    /\ out = <<>>
    /\ i = 0
    /\ ys = <<>>
    /\ Xs = <<>>
    /\ Xs_train = <<>>
    /\ Xs_test = <<>>
    /\ ys_train = <<>>
    /\ ys_test = <<>>
    /\ pca = <<>>
    /\ Xs_train_pca = <<>>
    /\ fits = <<>>
    /\ param_grid_list = <<>>
    /\ result_list = <<>>
    /\ grid_list = <<>>


\* ------------------------------------------------------------------------
\* Cell "Load embeddings (Xs) and target effects (ys)"
\* ------------------------------------------------------------------------

\* torch.load(fn): the files of the directory with that name.
FilesNamed(fn) == {f \in emb_dir : f.name = fn}

\* A variant of the loop body that passes over a record it cannot load.
LoadRecord_SkipBad ==
    /\ pc = "load"
    /\ i < Len(fasta)
    /\ LET header == fasta[i + 1]
           field  == LastField(header)
           found  == FilesNamed(FileName(header))
           good   == /\ IsFloat(field)
                     /\ found # {}
                     /\ \A f \in found : f.layer = EMB_LAYER
       IN /\ ys' = IF good THEN Append(ys, Float(field)) ELSE ys
          /\ Xs' = IF good
                   THEN Append(Xs, [rec |-> FileName(header),
                                    dim |-> (CHOOSE f \in found : TRUE).dim])
                   ELSE Xs
    /\ i' = i + 1
    /\ ns' = ns \cup {"ys", "Xs", "header", "_seq"}
    /\ UNCHANGED <<inputs, control, cells, out, splits, projection, search>>

\* One pass of the loop over read_fasta(FASTA_PATH).
LoadRecord ==
    /\ pc = "load"
    /\ i < Len(fasta)
    /\ LET header == fasta[i + 1]
           field  == LastField(header)
           found  == FilesNamed(FileName(header))
       IN IF ~IsFloat(field)
          THEN \* float(scaled_effect) raises
               /\ Raise("ValueError")
               /\ ns' = ns \cup {"ys", "Xs", "header", "_seq", "scaled_effect"}
               /\ UNCHANGED loaded
          ELSE IF found = {}
          THEN \* torch.load(fn) raises; the label is already appended
               /\ Raise("FileNotFoundError")
               /\ ys' = Append(ys, Float(field))
               /\ ns' = ns \cup {"ys", "Xs", "header", "_seq", "scaled_effect",
                                 "fn"}
               /\ UNCHANGED <<i, Xs>>
          ELSE LET embs == CHOOSE f \in found : TRUE
               IN IF embs.layer # EMB_LAYER
                  THEN \* embs['mean_representations'][EMB_LAYER] raises
                       /\ Raise("KeyError")
                       /\ ys' = Append(ys, Float(field))
                       /\ ns' = ns \cup LoadCell.writes
                       /\ UNCHANGED <<i, Xs>>
                  ELSE /\ ys' = Append(ys, Float(field))
                       /\ Xs' = Append(Xs, [rec |-> FileName(header),
                                            dim |-> embs.dim])
                       /\ i' = i + 1
                       /\ ns' = ns \cup LoadCell.writes
                       /\ UNCHANGED control
    /\ UNCHANGED <<inputs, cells, out, splits, projection, search>>

\* A variant of the end of the cell that stacks whatever the loop collected.
LoadFinish_NoShapeCheck ==
    /\ pc = "load"
    /\ i = Len(fasta)
    /\ Xs # <<>>
    /\ out' = out \o << [kind |-> "len", val |-> <<Len(ys)>>],
                        [kind |-> "shape", val |-> <<Len(Xs), Xs[1].dim>>] >>
    /\ Finish(LoadCell, "split")
    /\ UNCHANGED <<inputs, loaded, splits, projection, search>>

\* The loop is over: torch.stack(Xs, dim=0).numpy() and the two prints.
\* torch.stack raises on an empty list and on tensors of different sizes.
LoadFinish ==
    /\ pc = "load"
    /\ i = Len(fasta)
    /\ IF Xs = <<>> \/ \E r \in Range(Xs) : r.dim # Xs[1].dim
       THEN /\ Raise("RuntimeError")
            /\ ns' = ns \cup {"ys", "Xs"}
            /\ UNCHANGED <<cells, out>>
       ELSE /\ out' = out \o
                 << [kind |-> "len", val |-> <<Len(ys)>>],
                    [kind |-> "shape", val |-> <<Len(Xs), Xs[1].dim>>] >>
            /\ Finish(LoadCell, "split")
    /\ UNCHANGED <<inputs, loaded, splits, projection, search>>

\* ------------------------------------------------------------------------
\* Cells "Train / Test Split"
\* ------------------------------------------------------------------------

\* A variant of the split that draws from numpy's global generator
\* (random_state=None) instead of a generator seeded with random_state.
SplitStage_GlobalGenerator ==
    /\ pc = "split"
    /\ NTrain(Len(Xs)) > 0
    /\ LET idx == SplitIndices(np_random, Len(Xs))
       IN /\ Xs_train' = Take(Xs, idx.train)
          /\ Xs_test'  = Take(Xs, idx.test)
          /\ ys_train' = Take(ys, idx.train)
          /\ ys_test'  = Take(ys, idx.test)
    /\ Finish(SplitCell, "shapes")
    /\ UNCHANGED <<inputs, out, loaded, projection, search>>

\* train_test_split(Xs, ys, train_size=train_size, random_state=42).
\* It raises when the training set would be empty; it returns new arrays
\* and lists and leaves Xs, ys and numpy's global generator alone.
SplitStage ==
    /\ pc = "split"
    /\ LET n   == Len(Xs)
           idx == SplitIndices(random_state, n)
       IN IF NTrain(n) = 0
          THEN /\ Raise("ValueError")
               /\ ns' = ns \cup {"train_size"}
               /\ UNCHANGED <<cells, splits>>
          ELSE /\ Xs_train' = Take(Xs, idx.train)
               /\ Xs_test'  = Take(Xs, idx.test)
               /\ ys_train' = Take(ys, idx.train)
               /\ ys_test'  = Take(ys, idx.test)
               /\ Finish(SplitCell, "shapes")
    /\ UNCHANGED <<inputs, out, loaded, projection, search>>

\* Xs_train.shape, Xs_test.shape, len(ys_train), len(ys_test)
ShapesStage ==
    /\ pc = "shapes"
    /\ out' = Append(out,
                 [kind |-> "shapes",
                  val  |-> <<Len(Xs_train), Xs_train[1].dim,
                             Len(Xs_test), Xs_test[1].dim,
                             Len(ys_train), Len(ys_test)>>])
    /\ Finish(ShapesCell, "pca")
    /\ UNCHANGED <<inputs, loaded, splits, projection, search>>

\* ------------------------------------------------------------------------
\* Cells "PCA" and "Visualize Embeddings"
\* ------------------------------------------------------------------------

\* The rows of an array projected on n components.
Projected(rows, n) == [j \in 1..Len(rows) |-> [rec |-> rows[j].rec, dim |-> n]]

\* A variant of the PCA cell that overwrites its input with the projection.
PCAStage_InPlace ==
    /\ pc = "pca"
    /\ num_pca_components <= Min(Len(Xs_train), Xs_train[1].dim)
    /\ pca' = << [n_components |-> num_pca_components,
                  n_samples    |-> Len(Xs_train)] >>
    /\ fits' = Append(fits, [estimator |-> "pca", data |-> "Xs_train",
                             rows |-> {r.rec : r \in Range(Xs_train)}])
    /\ Xs_train_pca' = Projected(Xs_train, num_pca_components)
    /\ Xs_train' = Projected(Xs_train, num_pca_components)
    /\ Finish(PCACell, "plot")
    /\ UNCHANGED <<inputs, out, loaded, Xs_test, ys_train, ys_test, search>>

\* pca = PCA(num_pca_components); Xs_train_pca = pca.fit_transform(Xs_train).
\* The fit raises unless n_components <= min(n_samples, n_features); PCA
\* copies its input (copy=True).
PCAStage ==
    /\ pc = "pca"
    /\ IF num_pca_components > Min(Len(Xs_train), Xs_train[1].dim)
       THEN /\ Raise("ValueError")
            /\ ns' = ns \cup {"num_pca_components", "pca"}
            /\ UNCHANGED <<cells, projection>>
       ELSE /\ pca' = << [n_components |-> num_pca_components,
                          n_samples    |-> Len(Xs_train)] >>
            /\ fits' = Append(fits, [estimator |-> "pca", data |-> "Xs_train",
                                     rows |-> {r.rec : r \in Range(Xs_train)}])
            /\ Xs_train_pca' = Projected(Xs_train, num_pca_components)
            /\ Finish(PCACell, "plot")
    /\ UNCHANGED <<inputs, out, loaded, splits, search>>

\* The scatter plot of the first two components, coloured by ys_train.
PlotStage ==
    /\ pc = "plot"
    /\ out' = Append(out, [kind |-> "figure",
                           val  |-> <<Len(Xs_train_pca), Len(ys_train)>>])
    /\ Finish(PlotCell, "grids")
    /\ UNCHANGED <<inputs, loaded, splits, projection, search>>

\* ------------------------------------------------------------------------
\* Cells "Initialize grids" and "Run Grid Search"
\* ------------------------------------------------------------------------

\* knn_grid = [...]; svm_grid = [...]; rfr_grid = [...]
GridsStage ==
    /\ pc = "grids"
    /\ Finish(GridsCell, "lists")
    /\ UNCHANGED <<inputs, out, loaded, splits, projection, search>>

\* cls_list = [...]; param_grid_list = [knn_grid, svm_grid, rfr_grid]
ListsStage ==
    /\ pc = "lists"
    /\ param_grid_list' = <<knn_grid, svm_grid, rfr_grid>>
    /\ Finish(ListsCell, "search")
    /\ UNCHANGED <<inputs, out, loaded, splits, projection, result_list,
                   grid_list>>

\* The kernel compiles the cell before it runs any of it.  The cell leaves
\* the bracket opened by Pipeline( unclosed, so the compilation raises and
\* no statement of the cell runs: pipe, result_list and grid_list stay
\* unbound, nothing is fitted and nothing is printed.  The evaluation cell
\* comes after it and is never reached.
SearchStage ==
    /\ pc = "search"
    /\ ~Compiles(SearchCellBrackets)
    /\ Raise("SyntaxError")
    /\ UNCHANGED <<inputs, ns, cells, out, loaded, splits, projection, search>>

Next ==
    \/ LoadRecord
    \/ LoadFinish
    \/ SplitStage
    \/ ShapesStage
    \/ PCAStage
    \/ PlotStage
    \/ GridsStage
    \/ ListsStage
    \/ SearchStage

Spec == Init /\ [][Next]_vars


\* ------------------------------------------------------------------------
\* Vocabulary of the properties
\* ------------------------------------------------------------------------

Halted == pc = "halted"

\* The load cell ran to its end, and the split cell did.
LoadDone == Len(cells) >= 1

SplitDone == Len(cells) >= 2

Records == 1..Len(fasta)

HeaderUnparsable(k) == ~IsFloat(LastField(fasta[k]))

FileMissing(k) == \A f \in emb_dir : f.name # FileName(fasta[k])

LayerMissing(k) ==
    \E f \in emb_dir : f.name = FileName(fasta[k]) /\ f.layer # EMB_LAYER

\* The record cannot be loaded by the loop.
Unloadable(k) == HeaderUnparsable(k) \/ FileMissing(k) \/ LayerMissing(k)

\* The lengths of the stored embeddings (the directory holds the
\* embeddings of the file's records and nothing else).
StoredDims == {f.dim : f \in emb_dir}

\* Every record loads, all embeddings have the expected length, and the
\* training set is large enough for the 60-component PCA.
WellFormedInput ==
    /\ \A k \in Records : ~Unloadable(k)
    /\ StoredDims = {EmbDim}
    /\ (4 * Len(fasta)) \div 5 >= num_pca_components

RunEnded == Halted /\ WellFormedInput

\* The five stages of the pipeline, by the cell that carries each.
FiveStages == <<"load", "split", "pca", "search", "evaluation">>

IsStage(c) == c.cell \in Range(FiveStages)

StagesRun == SelectSeq(cells, IsStage)

IsCorrelation(o) == o.kind = "spearmanr"

Correlations == SelectSeq(out, IsCorrelation)

RowNames(arr) == {r.rec : r \in Range(arr)}

\* Number of combinations of a grid: the product of the lengths of its
\* value lists.
RECURSIVE ProductOver(_, _)
ProductOver(grid, keys) ==
    IF keys = {} THEN 1
    ELSE LET p == CHOOSE q \in keys : TRUE
         IN Len(grid[p]) * ProductOver(grid, keys \ {p})

GridSize(grid) == ProductOver(grid, DOMAIN grid)

\* ------------------------------------------------------------------------
\* C1
\* ------------------------------------------------------------------------

\* C1: on well-formed input the run executes the five stages load, split,
\* PCA projection, grid search, evaluation once each in this order, every
\* stage reads only what the stage before it produced, and no stage writes
\* a variable an earlier stage produced or read.
C1_FiveStagesLinear ==
    RunEnded =>
        /\ [j \in 1..Len(StagesRun) |-> StagesRun[j].cell] = FiveStages
        /\ \A j \in 2..Len(StagesRun) :
              StagesRun[j].reads \subseteq StagesRun[j - 1].writes
        /\ \A j \in 1..Len(StagesRun) : \A k \in (j + 1)..Len(StagesRun) :
              StagesRun[k].writes \cap
                  (StagesRun[j].writes \cup StagesRun[j].reads) = {}

\* ------------------------------------------------------------------------
\* C2
\* ------------------------------------------------------------------------

\* C2: once the load cell has completed, there are as many labels as rows
\* as records; the k-th row is the layer-EMB_LAYER embedding stored for the
\* k-th record and the k-th label is the number in the k-th header; all
\* rows have one and the same length.  An input whose stored embeddings
\* differ in length never completes the load.
C2_LoadedShapes ==
    /\ LoadDone =>
          /\ Len(ys) = Len(fasta)
          /\ Len(Xs) = Len(fasta)
          /\ \A k \in Records :
                /\ Xs[k].rec = FileName(fasta[k])
                /\ \E f \in FilesNamed(FileName(fasta[k])) :
                      f.layer = EMB_LAYER /\ f.dim = Xs[k].dim
                /\ ys[k] = Float(LastField(fasta[k]))
                /\ Xs[k].dim = Xs[1].dim
    /\ Cardinality(StoredDims) > 1 => ~LoadDone

\* The load completed on several records.
C2_Witness == LoadDone /\ Len(Xs) >= 3 /\ pc = "split"

\* ------------------------------------------------------------------------
\* C3
\* ------------------------------------------------------------------------

\* C3: if some record has a header whose last field is no number, or has
\* no embedding file, the run never leaves the load cell: no cell
\* completes and nothing is printed (so no rank correlation), and when the
\* run has ended it ended with the exception of the first record that
\* cannot be loaded, all records before it loaded.
\* (The implication is written "conclusion or not premise".)
C3_FailsInLoad ==
    \/ /\ pc \in {"load", "halted"}
       /\ cells = <<>>
       /\ out = <<>>
       /\ Halted =>
             /\ i + 1 \in Records
             /\ Unloadable(i + 1)
             /\ \A j \in 1..i : ~Unloadable(j)
             /\ Len(Xs) = i
             /\ HeaderUnparsable(i + 1) => error = "ValueError"
             /\ (~HeaderUnparsable(i + 1) /\ FileMissing(i + 1)) =>
                    error = "FileNotFoundError"
    \/ ~(\E k \in Records : HeaderUnparsable(k) \/ FileMissing(k))

\* The run ended at a bad record after an earlier record had loaded.
C3_Witness ==
    /\ Halted
    /\ i >= 1
    /\ error \in {"ValueError", "FileNotFoundError"}
    /\ HeaderUnparsable(i + 1) \/ FileMissing(i + 1)

\* ------------------------------------------------------------------------
\* C4 - C8: the grid search and the evaluation
\* ------------------------------------------------------------------------

\* C4: for each family the search evaluates each combination of that
\* family's grid exactly once and nothing else, one row of the family's
\* result table per combination: 48 rows for KNN, 12 for SVR, 16 for the
\* random forest.
C4_ExhaustiveGrids ==
    RunEnded =>
        /\ <<GridSize(knn_grid), GridSize(svm_grid), GridSize(rfr_grid)>>
              = <<48, 12, 16>>
        /\ Len(result_list) = 3
        /\ \A f \in 1..3 :
              /\ Len(result_list[f]) = GridSize(param_grid_list[f])
              /\ \A r \in 1..Len(result_list[f]) :
                    /\ DOMAIN result_list[f][r].params = DOMAIN param_grid_list[f]
                    /\ \A p \in DOMAIN param_grid_list[f] :
                          result_list[f][r].params[p] \in Range(param_grid_list[f][p])
                    /\ \A q \in 1..Len(result_list[f]) :
                          result_list[f][q].params = result_list[f][r].params
                              => q = r

\* C5: when the searches are over every family has exactly one best
\* estimator, a candidate of that family whose mean validation score is
\* the largest among the candidates of that family.
C5_BestPerFamily ==
    RunEnded =>
        /\ Len(grid_list) = 3
        /\ \A f \in 1..3 :
              /\ grid_list[f].best_index_ \in 1..Len(grid_list[f].cv_results_)
              /\ \A r \in 1..Len(grid_list[f].cv_results_) :
                    grid_list[f].cv_results_[r].mean_test_score <=
                      grid_list[f].cv_results_[grid_list[f].best_index_].mean_test_score

\* C6: the evaluation runs after the three searches and prints, in the
\* order KNN, SVR, random forest, one rank correlation per family: three
\* in all.
C6_ThreeCorrelations ==
    RunEnded =>
        /\ "grid_list" \in ns
        /\ \E j \in 1..Len(cells) : cells[j].cell = "evaluation"
        /\ [j \in 1..Len(Correlations) |-> Correlations[j].val] =
              << <<1>>, <<2>>, <<3>> >>

\* C7: PCA runs inside the cross-validation: the search fits the pipeline
\* on training folds, every such fit leaves out its validation fold, and
\* no fit of the run uses a test example.
C7_NoLeakage ==
    RunEnded =>
        /\ \E j \in 1..Len(fits) : fits[j].estimator = "pipeline"
        /\ \A j \in 1..Len(fits) :
              /\ fits[j].rows \cap RowNames(Xs_test) = {}
              /\ fits[j].estimator = "pipeline" =>
                    fits[j].rows \cap fits[j].validation = {}

\* C8: the candidate fits of the three searches run on copies: when the
\* searches are over each family has its scores and its best estimator,
\* the shared pipeline object has not been fitted and the training data
\* are what the split produced.
C8_FitsShareNothing ==
    RunEnded =>
        /\ "pipe" \in ns
        /\ Len(result_list) = 3 /\ Len(grid_list) = 3
        /\ \A j \in 1..Len(fits) : fits[j].estimator # "pipe"
        /\ Xs_train = Take(Xs, SplitIndices(random_state, Len(Xs)).train)
        /\ ys_train = Take(ys, SplitIndices(random_state, Len(ys)).train)

\* ------------------------------------------------------------------------
\* C9
\* ------------------------------------------------------------------------

\* C9: once the load cell has completed no step changes Xs or ys, and once
\* the split cell has completed no step changes the train and test arrays.
C9_LoadedDataFrozen ==
    [][ /\ LoadDone => (Xs' = Xs /\ ys' = ys)
        /\ SplitDone => (splits' = splits) ]_vars

\* Every cell that can run after the split has run, on loaded data.
C9_Witness ==
    /\ Halted
    /\ error = "SyntaxError"
    /\ Xs # <<>>
    /\ Xs_train_pca # <<>>
    /\ Len(cells) >= 7

\* ------------------------------------------------------------------------
\* C10
\* ------------------------------------------------------------------------

\* The label loaded with the row of a record.
LabelOf(rec) == ys[CHOOSE k \in 1..Len(Xs) : Xs[k].rec = rec]

\* C10: once the split has completed on N examples, the training set has
\* floor(0.8 N) examples and the test set the other N - floor(0.8 N); the
\* two sets share no example and together hold every example once; every
\* row is next to its own label; and the split is the one the seed 42
\* fixes for N, whatever the state of the global generator.
C10_Split ==
    SplitDone =>
        LET n == Len(Xs) IN
        /\ 5 * Len(Xs_train) <= 4 * n
        /\ 4 * n < 5 * (Len(Xs_train) + 1)
        /\ Len(Xs_test) = n - Len(Xs_train)
        /\ Len(ys_train) = Len(Xs_train)
        /\ Len(ys_test) = Len(Xs_test)
        /\ RowNames(Xs_train) \cap RowNames(Xs_test) = {}
        /\ RowNames(Xs_train) \cup RowNames(Xs_test) = RowNames(Xs)
        /\ Cardinality(RowNames(Xs_train)) = Len(Xs_train)
        /\ Cardinality(RowNames(Xs_test)) = Len(Xs_test)
        /\ Range(Xs_train) \cup Range(Xs_test) \subseteq Range(Xs)
        /\ \A j \in 1..Len(Xs_train) : ys_train[j] = LabelOf(Xs_train[j].rec)
        /\ \A j \in 1..Len(Xs_test) : ys_test[j] = LabelOf(Xs_test[j].rec)
        /\ Xs_test = Take(Xs, SubSeq(Permutation(42, n), 1, Len(Xs_test)))
        /\ Xs_train = Take(Xs, SubSeq(Permutation(42, n), Len(Xs_test) + 1, n))

\* A split of a set whose size is no multiple of five, both parts with
\* several examples.
C10_Witness ==
    /\ SplitDone
    /\ Len(Xs) % 5 # 0
    /\ Len(Xs_train) >= 2
    /\ Len(Xs_test) >= 2

=============================================================================
